---- MODULE Spec2Model ----
(***************************************************************************)
(* Model of the image-gem request handler (api/v1/image.go): ImageGet and  *)
(* its helpers.  One HTTP request is followed from the router to the last  *)
(* write on the ResponseWriter.                                            *)
(*                                                                         *)
(* Go strings that the code inspects character by character (the target    *)
(* URL, the numeric and format literals of the query) are sequences of     *)
(* one-character strings; strings that are only compared for equality      *)
(* (MIME types, messages, vips.ImageType names) are TLA+ strings.          *)
(***************************************************************************)
EXTENDS Integers, Sequences, FiniteSets, TLC

(***************************************************************************)
(* Program constants                                                       *)
(***************************************************************************)
maxImageSize == 5 * 1024 * 1024
maxImageHeight == 20000
maxImageWidth == 20000

StatusOK == 200
StatusBadRequest == 400
StatusInternalServerError == 500

\* io.Copy moves the body through a buffer of 32 KiB.
CopyBufSize == 32 * 1024

(***************************************************************************)
(* Bounds of the model                                                     *)
(***************************************************************************)
\* Upstream bodies are at most this many bytes longer than the ceiling.
MaxExcess == 1
\* Number of reads of one copy buffer followed one by one from the start of
\* the body; the rest of the body is taken in one run of reads.
MaxReads == 1
\* Largest target and image dimension when resizeImage is checked on its own.
MaxDim == 3
\* countingReader on its own: how many copy buffers the body is longer
\* than the ceiling, and how many single bytes are read between two buffers
MaxOver == 2
MaxOddBytes == 2

(***************************************************************************)
(* Characters and strings                                                  *)
(***************************************************************************)
Digits == <<"0", "1", "2", "3", "4", "5", "6", "7", "8", "9">>
Upper == <<"A", "B", "C", "D", "E", "F", "G", "H", "I", "J", "K", "L", "M",
           "N", "O", "P", "Q", "R", "S", "T", "U", "V", "W", "X", "Y", "Z">>
Lower == <<"a", "b", "c", "d", "e", "f", "g", "h", "i", "j", "k", "l", "m",
           "n", "o", "p", "q", "r", "s", "t", "u", "v", "w", "x", "y", "z">>

IsDigit(c) == \E i \in 1..10 : Digits[i] = c
DigitVal(c) == (CHOOSE i \in 1..10 : Digits[i] = c) - 1
IsLetter(c) == \E i \in 1..26 : Upper[i] = c \/ Lower[i] = c

LowerChar(c) ==
    IF \E i \in 1..26 : Upper[i] = c
    THEN Lower[CHOOSE i \in 1..26 : Upper[i] = c]
    ELSE c

\* strings.ToLower
ToLower(s) == [i \in 1..Len(s) |-> LowerChar(s[i])]

\* strings.HasPrefix
HasPrefix(s, prefix) ==
    /\ Len(s) >= Len(prefix)
    /\ SubSeq(s, 1, Len(prefix)) = prefix

\* strings.Index for a one-character needle, 0 when absent (Go: -1).
IndexChar(s, c) ==
    IF \E i \in 1..Len(s) : s[i] = c
    THEN CHOOSE i \in 1..Len(s) : s[i] = c /\ \A j \in 1..(i - 1) : s[j] # c
    ELSE 0

\* strings.LastIndex for a one-character needle, 0 when absent.
LastIndexChar(s, c) ==
    IF \E i \in 1..Len(s) : s[i] = c
    THEN CHOOSE i \in 1..Len(s) : s[i] = c /\ \A j \in (i + 1)..Len(s) : s[j] # c
    ELSE 0

RECURSIVE DecimalValue(_)
DecimalValue(s) ==
    IF s = <<>> THEN 0
    ELSE 10 * DecimalValue(SubSeq(s, 1, Len(s) - 1)) + DigitVal(s[Len(s)])

RECURSIVE Pow10(_)
Pow10(n) == IF n = 0 THEN 1 ELSE 10 * Pow10(n - 1)

AllDigits(s) == \A i \in 1..Len(s) : IsDigit(s[i])

\* strconv.Atoi on the literals of the model (no overflow: every literal is
\* far below 2^63): an optional sign and at least one decimal digit.
Atoi(s) ==
    LET signed == s # <<>> /\ s[1] \in {"+", "-"}
        body == IF signed THEN Tail(s) ELSE s
    IN  IF body = <<>> \/ ~AllDigits(body)
        THEN [err |-> TRUE, num |-> 0]
        ELSE [err |-> FALSE,
              num |-> IF signed /\ s[1] = "-" THEN 0 - DecimalValue(body)
                      ELSE DecimalValue(body)]

(***************************************************************************)
(* float64 values: a finite value is the fraction num/den (den a power of  *)
(* ten), the two infinities and NaN are kinds of their own.  Comparisons   *)
(* follow IEEE 754: every comparison with NaN is false.                    *)
(***************************************************************************)
Float(n, d) == [kind |-> "num", num |-> n, den |-> d]
NaN == [kind |-> "nan", num |-> 0, den |-> 1]
Inf(neg) == [kind |-> "inf", num |-> IF neg THEN 0 - 1 ELSE 1, den |-> 1]
FloatZero == Float(0, 1)

\* f < k and f > k for a float64 f and an integer k
FloatLess(f, k) ==
    \/ f.kind = "num" /\ f.num < k * f.den
    \/ f.kind = "inf" /\ f.num < 0
FloatGreater(f, k) ==
    \/ f.kind = "num" /\ f.num > k * f.den
    \/ f.kind = "inf" /\ f.num > 0

\* strconv.ParseFloat(s, 64) on the literals of the model: "NaN" and "Inf"
\* (any case, Inf with an optional sign), and decimals with an optional sign
\* and an optional fraction.  Exponents and hexadecimal floats do not occur.
ParseFloat(s) ==
    LET signed == s # <<>> /\ s[1] \in {"+", "-"}
        neg == signed /\ s[1] = "-"
        body == IF signed THEN Tail(s) ELSE s
        dot == IndexChar(body, ".")
        ip == IF dot = 0 THEN body ELSE SubSeq(body, 1, dot - 1)
        fp == IF dot = 0 THEN <<>> ELSE SubSeq(body, dot + 1, Len(body))
        mant == DecimalValue(ip \o fp)
    IN  IF ~signed /\ ToLower(s) = <<"n", "a", "n">>
        THEN [err |-> FALSE, num |-> NaN]
        ELSE IF ToLower(body) \in {<<"i", "n", "f">>,
                                   <<"i", "n", "f", "i", "n", "i", "t", "y">>}
        THEN [err |-> FALSE, num |-> Inf(neg)]
        ELSE IF ip \o fp = <<>> \/ ~AllDigits(ip) \/ ~AllDigits(fp)
        THEN [err |-> TRUE, num |-> FloatZero]
        ELSE [err |-> FALSE,
              num |-> Float(IF neg THEN 0 - mant ELSE mant, Pow10(Len(fp)))]

FloatLessEq(f, k) ==
    \/ f.kind = "num" /\ f.num <= k * f.den
    \/ f.kind = "inf" /\ f.num < 0

(***************************************************************************)
(* net/url as far as normalizeURL uses it.  The URLs of the model carry no *)
(* userinfo, query, fragment, escape or IPv6 literal.                      *)
(***************************************************************************)
SchemeSep == <<":", "/", "/">>
HttpPrefix == <<"h", "t", "t", "p">> \o SchemeSep
HttpsPrefix == <<"h", "t", "t", "p", "s">> \o SchemeSep

\* url.getScheme: the letters, digits, "+", "-" and "." before the first
\* ":" are the scheme; a digit or sign in first place, or any other
\* character before a ":", means there is no scheme.
getScheme(rawURL) ==
    LET Stops(i) == \/ ~(IsLetter(rawURL[i]) \/ IsDigit(rawURL[i])
                          \/ rawURL[i] \in {"+", "-", "."})
                    \/ (i = 1 /\ ~IsLetter(rawURL[i]))
        stop == IF \E i \in 1..Len(rawURL) : Stops(i)
                THEN CHOOSE i \in 1..Len(rawURL) :
                         Stops(i) /\ \A j \in 1..(i - 1) : ~Stops(j)
                ELSE 0
    IN  IF stop # 0 /\ rawURL[stop] = ":"
        THEN IF stop = 1
             THEN [err |-> TRUE, scheme |-> <<>>, rest |-> <<>>]
             ELSE [err |-> FALSE, scheme |-> SubSeq(rawURL, 1, stop - 1),
                   rest |-> SubSeq(rawURL, stop + 1, Len(rawURL))]
        ELSE [err |-> FALSE, scheme |-> <<>>, rest |-> rawURL]

NoURL == [err |-> TRUE, Scheme |-> <<>>, Opaque |-> <<>>, Host |-> <<>>, Path |-> <<>>]

\* url.Parse: scheme (lower-cased), then either an opaque rest, or an
\* authority up to the next "/" followed by the path.  A host whose last
\* ":" is followed by anything but digits is an invalid port.
urlParse(rawURL) ==
    LET sch == getScheme(rawURL)
        rest == sch.rest
        after == SubSeq(rest, 3, Len(rest))
        slash == IndexChar(after, "/")
        host == IF slash = 0 THEN after ELSE SubSeq(after, 1, slash - 1)
        path == IF slash = 0 THEN <<>> ELSE SubSeq(after, slash, Len(after))
        colon == LastIndexChar(host, ":")
        firstSeg == IF IndexChar(rest, "/") = 0 THEN rest
                    ELSE SubSeq(rest, 1, IndexChar(rest, "/") - 1)
    IN  IF sch.err THEN NoURL
        ELSE IF ~HasPrefix(rest, <<"/">>) /\ sch.scheme # <<>>
        THEN [err |-> FALSE, Scheme |-> ToLower(sch.scheme), Opaque |-> rest,
              Host |-> <<>>, Path |-> <<>>]
        ELSE IF ~HasPrefix(rest, <<"/">>) /\ IndexChar(firstSeg, ":") # 0
        THEN NoURL
        ELSE IF (sch.scheme # <<>> \/ ~HasPrefix(rest, <<"/", "/", "/">>))
                /\ HasPrefix(rest, <<"/", "/">>)
        THEN IF colon # 0 /\ ~AllDigits(SubSeq(host, colon + 1, Len(host)))
             THEN NoURL
             ELSE [err |-> FALSE, Scheme |-> ToLower(sch.scheme), Opaque |-> <<>>,
                   Host |-> host, Path |-> path]
        ELSE [err |-> FALSE, Scheme |-> ToLower(sch.scheme), Opaque |-> <<>>,
              Host |-> <<>>, Path |-> rest]

\* (*url.URL).String
urlString(u) ==
    LET sch == IF u.Scheme # <<>> THEN u.Scheme \o <<":">> ELSE <<>>
        auth == IF (u.Scheme # <<>> \/ u.Host # <<>>) /\ (u.Host # <<>> \/ u.Path # <<>>)
                THEN <<"/", "/">> \o u.Host ELSE <<>>
        sep == IF u.Path # <<>> /\ u.Path[1] # "/" /\ u.Host # <<>>
               THEN <<"/">> ELSE <<>>
    IN  IF u.Opaque # <<>> THEN sch \o u.Opaque
        ELSE sch \o auth \o sep \o u.Path

normalizeURL(inputURL) ==
    LET withScheme == IF ~HasPrefix(inputURL, HttpPrefix) /\ ~HasPrefix(inputURL, HttpsPrefix)
                      THEN HttpsPrefix \o inputURL
                      ELSE inputURL
        parsedURL == urlParse(withScheme)
    IN  IF parsedURL.err
        THEN [err |-> "parse", url |-> <<>>]
        ELSE IF parsedURL.Scheme # <<"h", "t", "t", "p">>
                /\ parsedURL.Scheme # <<"h", "t", "t", "p", "s">>
        THEN [err |-> "unsupported URL scheme", url |-> <<>>]
        ELSE [err |-> "", url |-> urlString(parsedURL)]

(***************************************************************************)
(* Query parameters.  A query is a function from the recognised keys to    *)
(* the value url.Values.Get returns: <<>> for an absent (or empty) key.    *)
(***************************************************************************)
Keys == {"h", "height", "w", "width", "rotate", "r", "q", "quality",
         "format", "f", "sharpen", "s", "blur", "b", "up", "strip", "webp"}

EmptyQuery == [k \in Keys |-> <<>>]

RECURSIVE parseIntQueryParam(_, _, _, _)
parseIntQueryParam(q, min, max, keys) ==
    IF keys = <<>> THEN [err |-> FALSE, num |-> 0]
    ELSE LET value == q[Head(keys)]
             a == Atoi(value)
         IN  IF value # <<>>
             THEN IF a.err THEN [err |-> TRUE, num |-> 0]
                  ELSE IF a.num < min \/ a.num > max THEN [err |-> TRUE, num |-> 0]
                  ELSE [err |-> FALSE, num |-> a.num]
             ELSE parseIntQueryParam(q, min, max, Tail(keys))

RECURSIVE parseFloatQueryParam(_, _, _, _)
parseFloatQueryParam(q, min, max, keys) ==
    IF keys = <<>> THEN [err |-> FALSE, num |-> FloatZero]
    ELSE LET value == q[Head(keys)]
             p == ParseFloat(value)
         IN  IF value # <<>>
             THEN IF p.err THEN [err |-> TRUE, num |-> FloatZero]
                  ELSE IF FloatLess(p.num, min) \/ FloatGreater(p.num, max)
                  THEN [err |-> TRUE, num |-> FloatZero]
                  ELSE [err |-> FALSE, num |-> p.num]
             ELSE parseFloatQueryParam(q, min, max, Tail(keys))

parseDimensions(q) ==
    LET h == parseIntQueryParam(q, 0, maxImageHeight, <<"h", "height">>)
        w == parseIntQueryParam(q, 0, maxImageWidth, <<"w", "width">>)
    IN  IF h.err THEN [err |-> TRUE, height |-> 0, width |-> 0]
        ELSE IF w.err THEN [err |-> TRUE, height |-> 0, width |-> 0]
        ELSE [err |-> FALSE, height |-> h.num, width |-> w.num]

parseRotation(q) == parseIntQueryParam(q, 0, 360, <<"rotate", "r">>)

parseQuality(q) == parseIntQueryParam(q, 1, 100, <<"q", "quality">>)

parseSharpen(q) == parseFloatQueryParam(q, 0, 1, <<"sharpen", "s">>)

parseBlur(q) == parseFloatQueryParam(q, 0, 1, <<"blur", "b">>)

\* vips.ImageType values are named by their file type.
parseImageFormat(q) ==
    LET format == IF q["format"] = <<>> THEN q["f"] ELSE q["format"]
        low == ToLower(format)
    IN  IF low = <<>> THEN [err |-> FALSE, format |-> "unknown"]
        ELSE IF low \in {<<"j", "p", "e", "g">>, <<"j", "p", "g">>}
        THEN [err |-> FALSE, format |-> "jpeg"]
        ELSE IF low = <<"p", "n", "g">> THEN [err |-> FALSE, format |-> "png"]
        ELSE IF low = <<"w", "e", "b", "p">> THEN [err |-> FALSE, format |-> "webp"]
        ELSE IF low \in {<<"h", "e", "i", "f">>, <<"h", "e", "i", "c">>}
        THEN [err |-> FALSE, format |-> "heif"]
        ELSE IF low \in {<<"t", "i", "f", "f">>, <<"t", "i", "f">>}
        THEN [err |-> FALSE, format |-> "tiff"]
        ELSE IF low = <<"a", "v", "i", "f">> THEN [err |-> FALSE, format |-> "avif"]
        ELSE IF low \in {<<"j", "p", "2", "k">>, <<"j", "2", "k">>}
        THEN [err |-> FALSE, format |-> "jp2k"]
        ELSE IF low = <<"g", "i", "f">> THEN [err |-> FALSE, format |-> "gif"]
        ELSE [err |-> TRUE, format |-> "unknown"]

\* The Accept header is a sequence of media ranges; strings.Contains looks
\* for the media range image/webp among them.
convertImageToWebP(q, accept) ==
    IF q["webp"] # <<"a", "u", "t", "o">> THEN FALSE
    ELSE \E i \in 1..Len(accept) : accept[i] = "image/webp"

isSupportedImageFormat(contentType) ==
    contentType \in {"image/jpeg", "image/png", "image/gif", "image/svg+xml",
                     "image/webp", "image/heic", "image/heif", "image/tiff",
                     "image/tif", "image/avif", "image/jp2", "image/j2k"}

(***************************************************************************)
(* The image library (govips) as the handler sees it: a handle with a      *)
(* native format, measured through Width, PageHeight and HasAlpha.         *)
(***************************************************************************)
\* img.Format() of an image decoded from a body of this content type
NativeFormat(contentType) ==
    CASE contentType = "image/jpeg" -> "jpeg"
      [] contentType = "image/png" -> "png"
      [] contentType = "image/gif" -> "gif"
      [] contentType = "image/webp" -> "webp"
      [] contentType \in {"image/heic", "image/heif"} -> "heif"
      [] contentType \in {"image/tiff", "image/tif"} -> "tiff"
      [] contentType = "image/avif" -> "avif"
      [] contentType \in {"image/jp2", "image/j2k"} -> "jp2k"
      [] OTHER -> "unknown"

\* Result of a resize of one axis of d pixels by the factor s.num/s.den,
\* rounded to the nearest pixel and never below one pixel.
Scaled(d, s) ==
    LET p == (2 * d * s.num + s.den) \div (2 * s.den)
    IN  IF p < 1 THEN 1 ELSE p

resizeImageEitherAxis(imgWidth, imgPageHeight, width, height, upscale) ==
    LET scale == IF width = 0 /\ height # 0 THEN Float(height, imgPageHeight)
                 ELSE IF height = 0 /\ width # 0 THEN Float(width, imgWidth)
                 ELSE Float(0 - 1, 1)
        hScale == Float(width, imgWidth)
        vScale == Float(height, imgPageHeight)
    IN  IF width = 0 /\ height = 0
        THEN [call |-> "none", hScale |-> FloatZero, vScale |-> FloatZero]
        ELSE IF (upscale \/ FloatLessEq(scale, 1)) /\ scale.num # 0 - scale.den
        THEN [call |-> "Resize", hScale |-> scale, vScale |-> scale]
        ELSE IF upscale \/ (FloatLessEq(hScale, 1) \/ FloatLessEq(vScale, 1))
        THEN [call |-> "ResizeWithVScale", hScale |-> hScale, vScale |-> vScale]
        ELSE [call |-> "none", hScale |-> FloatZero, vScale |-> FloatZero]

NoResize == [call |-> "none", hScale |-> FloatZero, vScale |-> FloatZero]

\* resizeImage up to the library call it makes: which resize, if any, and
\* with which factors.  imgWidth and imgPageHeight are img.Width() and
\* img.PageHeight().
resizeImage(imgWidth, imgPageHeight, width, height, upscale) ==
    LET scale == IF width = 0 /\ height # 0 THEN Float(height, imgPageHeight)
                 ELSE IF height = 0 /\ width # 0 THEN Float(width, imgWidth)
                 ELSE Float(0 - 1, 1)
        hScale == Float(width, imgWidth)
        vScale == Float(height, imgPageHeight)
    IN  IF width = 0 /\ height = 0 THEN NoResize
        ELSE IF (upscale \/ FloatLessEq(scale, 1)) /\ scale.num # 0 - scale.den
        THEN [call |-> "Resize", hScale |-> scale, vScale |-> scale]
        ELSE IF upscale \/ (FloatLessEq(hScale, 1) /\ FloatLessEq(vScale, 1))
        THEN [call |-> "ResizeWithVScale", hScale |-> hScale, vScale |-> vScale]
        ELSE NoResize

\* ExportImage up to the encoder it calls: the encoder, the format of the
\* bytes it produces and the quality it is given (0: the encoder's default).
ExportImage(imgFormat, quality, formats) ==
    LET format == IF Len(formats) > 0 THEN formats[1] ELSE imgFormat
        q == IF quality >= 1 /\ quality <= 100 THEN quality ELSE 0
    IN  CASE format = "jpeg" -> [encoder |-> "ExportJpeg", format |-> "jpeg", quality |-> q]
          [] format = "png" -> [encoder |-> "ExportPng", format |-> "png", quality |-> 0]
          [] format = "webp" -> [encoder |-> "ExportWebp", format |-> "webp", quality |-> q]
          [] format = "heif" -> [encoder |-> "ExportHeif", format |-> "heif", quality |-> q]
          [] format = "tiff" -> [encoder |-> "ExportTiff", format |-> "tiff", quality |-> 0]
          [] format = "avif" -> [encoder |-> "ExportAvif", format |-> "avif", quality |-> q]
          [] format = "jp2k" -> [encoder |-> "ExportJp2k", format |-> "jp2k", quality |-> q]
          [] format = "gif" -> [encoder |-> "ExportGIF", format |-> "gif", quality |-> q]
          [] OTHER -> [encoder |-> "ExportNative", format |-> imgFormat, quality |-> 0]

(***************************************************************************)
(* countingReader and the ResponseWriter                                   *)
(***************************************************************************)
SizeExceeded == "image size exceeds the allowed limit"

\* Read with the count compared to the ceiling before the bytes are added
ReadCheckedFirst(cr, n, err) ==
    [cr |-> [cr EXCEPT !.bytesRead = cr.bytesRead + n],
     n |-> n,
     err |-> IF cr.bytesRead > cr.maxImageSize THEN SizeExceeded ELSE err]

\* countingReader.Read when the underlying reader returns (n, err):
\* the new reader and the (n, err) handed to the caller.
Read(cr, n, err) ==
    LET bytesRead == cr.bytesRead + n
    IN  [cr |-> [cr EXCEPT !.bytesRead = bytesRead],
         n |-> n,
         err |-> IF bytesRead > cr.maxImageSize THEN SizeExceeded ELSE err]

Segment(kind, lo, hi, text, code) ==
    [kind |-> kind, lo |-> lo, hi |-> hi, text |-> text, code |-> code]

\* w.Write: the first write sends the header with status 200 unless a
\* status was written before; the bytes are appended to the body.  A range
\* of the upstream body that continues the previous range extends it.
Write(wr, seg) ==
    LET n == Len(wr.body)
        joins == /\ n > 0
                 /\ seg.kind = "upstream"
                 /\ wr.body[n].kind = "upstream"
                 /\ wr.body[n].hi = seg.lo
    IN  [wr EXCEPT !.status = IF wr.status = 0 THEN StatusOK ELSE wr.status,
                   !.body = IF joins
                            THEN [wr.body EXCEPT ![n].hi = seg.hi]
                            ELSE Append(wr.body, seg)]

\* http.Error: sets the Content-Type of the header map, writes the status
\* (without effect once a header was sent) and writes the message.
HttpError(wr, error, code) ==
    Write([wr EXCEPT !.contentType = "text/plain; charset=utf-8",
                     !.status = IF wr.status = 0 THEN code ELSE wr.status,
                     !.errors = wr.errors + 1],
          Segment("error", 0, 0, error, code))

(***************************************************************************)
(* Inputs: the request and the upstream server                             *)
(***************************************************************************)
\* slugs["url"]: no scheme, http, https, another scheme, a bad port
RawURLs == {<<"h", "/", "x">>,
            HttpPrefix \o <<"h", "/", "x">>,
            <<"f", "t", "p">> \o SchemeSep \o <<"h", "/", "x">>,
            <<"h", ":", "x">>}

Unparsable == <<"a", "b", "c">>
TrueLit == <<"t", "r", "u", "e">>

HeightLits == {<<>>, <<"2", "0", "0">>, <<"2", "0", "0", "0", "1">>, <<"-", "1">>}
WidthLits == {<<>>, <<"2", "0", "0">>, <<"2", "0", "0", "0", "1">>}
RotationLits == {<<>>, <<"9", "0">>, <<"3", "6", "1">>}
QualityLits == {<<>>, <<"8", "0">>, <<"0">>, <<"1", "0", "1">>}
FormatLits == {<<>>, <<"P", "N", "G">>, <<"b", "m", "p">>}
SharpenLits == {<<>>, <<"0", ".", "5">>, <<"1", ".", "5">>, <<"N", "a", "N">>}
BlurLits == {<<>>, <<"0", ".", "5">>, <<"-", "1">>}
FlagLits == {<<>>, TrueLit}
WebpLits == {<<>>, <<"a", "u", "t", "o">>, <<"f", "o", "r", "c", "e">>}
AcceptHeaders == {<<"*/*">>, <<"text/html", "image/webp", "*/*">>}

\* The values of the two alias keys of one parameter: the key the code
\* reads first carries any literal of the parameter, the second key is
\* either absent or carries an unparsable value next to an absent first key.
AliasValues(lits) == {<<l, <<>>>> : l \in lits} \cup {<<<<>>, Unparsable>>}

UpstreamStatuses == {200, 203, 404}
ContentTypes == {"image/jpeg", "image/gif", "image/svg+xml", "text/html"}
BodyLens == {maxImageSize + k : k \in 0..MaxExcess}
\* img.Width() and img.PageHeight() of the decoded images
ImgDims == {<<1000, 800>>, <<100, 80>>}

(***************************************************************************)
(* State                                                                   *)
(***************************************************************************)
VARIABLES
    pc,             \* the statement of ImageGet that runs next
    r,              \* the request: url slug, query, Accept header
    v,              \* the local variables of ImageGet
    fetches,        \* number of client.Do calls
    resp,           \* the upstream response
    countingReader, \* the reader around resp.Body
    w,              \* the ResponseWriter
    img,            \* the decoded image handle
    defers,         \* the deferred calls of ImageGet, in order
    ops,            \* the image library calls made, in order
    resizeCall,     \* what resizeImage measured and which resize it called
    readErr         \* the error the last countingReader.Read returned

vars == <<pc, r, v, fetches, resp, countingReader, w, img, defers, ops, resizeCall,
          readErr>>

NotResized == [call |-> "none", hScale |-> FloatZero, vScale |-> FloatZero,
               Width |-> 0, PageHeight |-> 0]

NoImage == [open |-> FALSE, opens |-> 0, closes |-> 0, Format |-> "unknown",
            Width |-> 0, PageHeight |-> 0]

\* The request is read-only and every part of it is read once: the query
\* values, the Accept header and the upstream response are drawn when the
\* handler reads them, and are <<>> or zero until then.
Init ==
    /\ pc = "normalizeURL"
    /\ r \in [url : RawURLs, query : {EmptyQuery}, accept : {<<>>}, otherKey : {FALSE}]
    /\ v = [targetUrl |-> <<>>, height |-> 0, width |-> 0, rotation |-> 0,
            quality |-> 0, targetFormat |-> "unknown",
            sharpenAmount |-> FloatZero, blurAmount |-> FloatZero,
            upscale |-> FALSE, stripMetadata |-> FALSE, convertToWebP |-> FALSE,
            hasQueryParams |-> FALSE, img |-> "nil"]
    /\ fetches = 0
    /\ resp = [StatusCode |-> 0, ContentType |-> "", bodyLen |-> 0, closed |-> FALSE]
    /\ countingReader = [bytesRead |-> 0, maxImageSize |-> 0]
    /\ w = [contentType |-> "", status |-> 0, body |-> <<>>, errors |-> 0]
    /\ img = NoImage
    /\ defers = <<>>
    /\ ops = <<>>
    /\ resizeCall = NotResized
    /\ readErr = ""

HasDefer(d) == \E i \in 1..Len(defers) : defers[i] = d

\* return with img.Close() called at the end of ImageGet instead of
\* deferred: an early return after an error leaves the handle open
ReturnClosingAtEnd(wr) ==
    /\ w' = wr
    /\ pc' = "done"
    /\ img' = IF HasDefer("img.Close") /\ wr.errors = 0
              THEN [img EXCEPT !.open = FALSE, !.closes = img.closes + 1]
              ELSE img
    /\ resp' = IF HasDefer("resp.Body.Close")
               THEN [resp EXCEPT !.closed = TRUE]
               ELSE resp
    /\ defers' = <<>>

\* return: the deferred img.Close() and resp.Body.Close() run, and the
\* response is what was written so far.
Return(wr) ==
    /\ w' = wr
    /\ pc' = "done"
    /\ img' = IF HasDefer("img.Close")
              THEN [img EXCEPT !.open = FALSE, !.closes = img.closes + 1]
              ELSE img
    /\ resp' = IF HasDefer("resp.Body.Close")
               THEN [resp EXCEPT !.closed = TRUE]
               ELSE resp
    /\ defers' = <<>>

SetQuery(k1, k2, vals) == [r EXCEPT !.query[k1] = vals[1], !.query[k2] = vals[2]]

(***************************************************************************)
(* ImageGet, lines 48-94: the URL and the query parameters                 *)
(***************************************************************************)
NormalizeURL ==
    /\ pc = "normalizeURL"
    /\ LET n == normalizeURL(r.url)
       IN  IF n.err # ""
           THEN /\ Return(HttpError(w, n.err, StatusBadRequest))
                /\ UNCHANGED v
           ELSE /\ v' = [v EXCEPT !.targetUrl = n.url]
                /\ pc' = "parseDimensions"
                /\ UNCHANGED <<resp, w, img, defers>>
    /\ UNCHANGED <<r, fetches, countingReader, ops, resizeCall, readErr>>

\* One parse step: the request's values for the keys are drawn, the parser
\* runs on the query, and the handler answers 400 or stores the result.
ParseStep(at, next, r1, err, v1) ==
    /\ pc = at
    /\ r' = r1
    /\ IF err
       THEN /\ Return(HttpError(w, "invalid parameter", StatusBadRequest))
            /\ UNCHANGED v
       ELSE /\ v' = v1
            /\ pc' = next
            /\ UNCHANGED <<resp, w, img, defers>>
    /\ UNCHANGED <<fetches, countingReader, ops, resizeCall, readErr>>

\* hvals, wvals: the values the request may give to <<h, height>> and <<w, width>>
ParseDimensionsWith(hvals, wvals) ==
    \E hs \in hvals, ws \in wvals :
        LET r1 == [r EXCEPT !.query["h"] = hs[1], !.query["height"] = hs[2],
                            !.query["w"] = ws[1], !.query["width"] = ws[2]]
            d == parseDimensions(r1.query)
        IN  ParseStep("parseDimensions", "parseRotation", r1, d.err,
                      [v EXCEPT !.height = d.height, !.width = d.width])

ParseDimensions == ParseDimensionsWith(AliasValues(HeightLits), AliasValues(WidthLits))

ParseRotationWith(values) ==
    \E vals \in values :
        LET r1 == SetQuery("rotate", "r", vals)
            p == parseRotation(r1.query)
        IN  ParseStep("parseRotation", "parseQuality", r1, p.err,
                      [v EXCEPT !.rotation = p.num])

ParseRotation == ParseRotationWith(AliasValues(RotationLits))

ParseQualityWith(values) ==
    \E vals \in values :
        LET r1 == SetQuery("q", "quality", vals)
            p == parseQuality(r1.query)
        IN  ParseStep("parseQuality", "parseImageFormat", r1, p.err,
                      [v EXCEPT !.quality = p.num])

ParseQuality == ParseQualityWith(AliasValues(QualityLits))

ParseImageFormatWith(values) ==
    \E vals \in values :
        LET r1 == SetQuery("format", "f", vals)
            p == parseImageFormat(r1.query)
        IN  ParseStep("parseImageFormat", "parseSharpen", r1, p.err,
                      [v EXCEPT !.targetFormat = p.format])

ParseImageFormat == ParseImageFormatWith(AliasValues(FormatLits))

ParseSharpenWith(values) ==
    \E vals \in values :
        LET r1 == SetQuery("sharpen", "s", vals)
            p == parseSharpen(r1.query)
        IN  ParseStep("parseSharpen", "parseBlur", r1, p.err,
                      [v EXCEPT !.sharpenAmount = p.num])

ParseSharpen == ParseSharpenWith(AliasValues(SharpenLits))

ParseBlurWith(values) ==
    \E vals \in values :
        LET r1 == SetQuery("blur", "b", vals)
            p == parseBlur(r1.query)
        IN  ParseStep("parseBlur", "flags", r1, p.err,
                      [v EXCEPT !.blurAmount = p.num])

ParseBlur == ParseBlurWith(AliasValues(BlurLits))

\* lines 91-94
Flags ==
    /\ pc = "flags"
    /\ \E up \in FlagLits, strip \in FlagLits, webp \in WebpLits, accept \in AcceptHeaders :
          r' = [r EXCEPT !.query["up"] = up, !.query["strip"] = strip,
                         !.query["webp"] = webp, !.accept = accept]
    /\ v' = [v EXCEPT !.upscale = (r'.query["up"] = TrueLit),
                      !.stripMetadata = (r'.query["strip"] = TrueLit),
                      !.convertToWebP = convertImageToWebP(r'.query, r'.accept)]
    /\ pc' = "fetch"
    /\ UNCHANGED <<fetches, resp, countingReader, w, img, defers, ops, resizeCall, readErr>>

(***************************************************************************)
(* ImageGet, lines 96-140: the fetch, the gates and the pass-through       *)
(***************************************************************************)
\* lines 96-109.  http.NewRequest cannot fail on a URL that url.Parse
\* accepted; client.Do fails or returns a response.
Fetch ==
    /\ pc = "fetch"
    /\ fetches' = fetches + 1
    /\ \/ /\ Return(HttpError(w, "fetch failed", StatusInternalServerError))
       \/ /\ \E status \in UpstreamStatuses :
                resp' = [resp EXCEPT !.StatusCode = status]
          /\ defers' = Append(defers, "resp.Body.Close")
          /\ pc' = "checkStatus"
          /\ UNCHANGED <<w, img>>
    /\ UNCHANGED <<r, v, countingReader, ops, resizeCall, readErr>>

\* lines 112-118
CheckStatus ==
    /\ pc = "checkStatus"
    /\ IF resp.StatusCode # StatusOK
       THEN Return(HttpError(w, "Received a status code from the server", resp.StatusCode))
       ELSE /\ \E contentType \in ContentTypes :
                  resp' = [resp EXCEPT !.ContentType = contentType]
            /\ pc' = "checkContentType"
            /\ UNCHANGED <<w, img, defers>>
    /\ UNCHANGED <<r, v, fetches, countingReader, ops, resizeCall, readErr>>

\* lines 119-125
CheckContentType ==
    /\ pc = "checkContentType"
    /\ IF ~isSupportedImageFormat(resp.ContentType)
       THEN /\ Return(HttpError(w, "Unsupported image format", StatusBadRequest))
            /\ UNCHANGED countingReader
       ELSE /\ \E len \in BodyLens : resp' = [resp EXCEPT !.bodyLen = len]
            /\ countingReader' = [bytesRead |-> 0, maxImageSize |-> maxImageSize]
            /\ pc' = "fastPath"
            /\ UNCHANGED <<w, img, defers>>
    /\ UNCHANGED <<r, v, fetches, ops, resizeCall, readErr>>

AnyKey(q) == \E k \in Keys : q[k] # <<>>

passThroughNoSvg(hasQueryParams, contentType) == ~hasQueryParams

\* line 132: the body is passed through without a decode
passThrough(hasQueryParams, contentType) ==
    ~hasQueryParams \/ contentType = "image/svg+xml"

\* lines 128-133.  r.URL.RawQuery is not empty when a recognised key or
\* any other key is present.
FastPath ==
    /\ pc = "fastPath"
    /\ \E otherKey \in (IF AnyKey(r.query) THEN {FALSE} ELSE BOOLEAN) :
          /\ r' = [r EXCEPT !.otherKey = otherKey]
          /\ v' = [v EXCEPT !.hasQueryParams = (AnyKey(r.query) \/ otherKey)]
    /\ IF passThrough(v'.hasQueryParams, resp.ContentType)
       THEN /\ w' = [w EXCEPT !.contentType = resp.ContentType]
            /\ pc' = "copy"
       ELSE /\ pc' = "readAll"
            /\ UNCHANGED w
    /\ UNCHANGED <<fetches, resp, countingReader, img, defers, ops, resizeCall, readErr>>

\* What the body still holds, and the sizes a read may return: all of the
\* rest, or one copy buffer while single reads are followed.
Remaining == resp.bodyLen - countingReader.bytesRead
ReadSizes ==
    {Remaining} \cup
    (IF countingReader.bytesRead < MaxReads * CopyBufSize /\ CopyBufSize < Remaining
     THEN {CopyBufSize}
     ELSE {})

\* lines 134-139: io.Copy(w, countingReader).  A step is a run of
\* iterations of the copy loop of which only the last may fail: every
\* read's bytes are written to w before its error is looked at.
Copy ==
    /\ pc = "copy"
    /\ IF Remaining = 0
       THEN /\ Return(w)
            /\ UNCHANGED <<countingReader, readErr>>
       ELSE \E n \in ReadSizes :
              LET rd == Read(countingReader, n, "")
                  w1 == Write(w, Segment("upstream", countingReader.bytesRead,
                                         countingReader.bytesRead + n, "", 0))
              IN  /\ countingReader.bytesRead + n <= maxImageSize + CopyBufSize
                  /\ countingReader' = rd.cr
                  /\ readErr' = rd.err
                  /\ IF rd.err # ""
                     THEN Return(HttpError(w1, "Failed to process image",
                                           StatusInternalServerError))
                     ELSE /\ w' = w1
                          /\ UNCHANGED <<pc, resp, img, defers>>
    /\ UNCHANGED <<r, v, fetches, ops, resizeCall>>

(***************************************************************************)
(* ImageGet, lines 142-169: decode                                         *)
(***************************************************************************)
\* io.ReadAll(countingReader), called at line 144 for a GIF and inside
\* vips.NewImageFromReader at line 163 otherwise.
ReadAll ==
    /\ pc = "readAll"
    /\ IF Remaining = 0
       THEN /\ pc' = "load"
            /\ UNCHANGED <<countingReader, readErr, resp, w, img, defers>>
       ELSE \E n \in ReadSizes :
              LET rd == Read(countingReader, n, "")
              IN  /\ countingReader' = rd.cr
                  /\ readErr' = rd.err
                  /\ IF rd.err # ""
                     THEN Return(HttpError(w, "Failed to decode image", StatusBadRequest))
                     ELSE UNCHANGED <<pc, resp, w, img, defers>>
    /\ UNCHANGED <<r, v, fetches, ops, resizeCall>>

\* lines 150-169: the library decodes the bytes or fails; a GIF sets
\* targetFormat.
Load ==
    /\ pc = "load"
    /\ \/ /\ Return(HttpError(w, "Failed to decode image", StatusBadRequest))
          /\ UNCHANGED v
       \/ /\ img' = [img EXCEPT !.open = TRUE, !.opens = img.opens + 1,
                                !.Format = NativeFormat(resp.ContentType)]
          /\ v' = [v EXCEPT !.img = "ref",
                            !.targetFormat = IF resp.ContentType = "image/gif"
                                             THEN "gif" ELSE v.targetFormat]
          /\ defers' = Append(defers, "img.Close")
          /\ pc' = "rotate"
          /\ UNCHANGED <<resp, w>>
    /\ UNCHANGED <<r, fetches, countingReader, ops, resizeCall, readErr>>

(***************************************************************************)
(* ImageGet, lines 171-228: the transforms and the export                  *)
(***************************************************************************)
\* A library call fails: the handler answers 500 and returns.
Fails(calls) ==
    /\ ops' = ops \o calls
    /\ Return(HttpError(w, "vips error", StatusInternalServerError))

Proceeds(calls, next) ==
    /\ ops' = ops \o calls
    /\ pc' = next
    /\ UNCHANGED <<resp, w, defers>>

\* lines 171-187
Rotate ==
    /\ pc = "rotate"
    /\ IF v.rotation # 0
       THEN \E hasAlpha \in BOOLEAN :
              LET pre == IF hasAlpha THEN <<"HasAlpha">> ELSE <<"HasNoAlpha", "BandJoinConst">>
              IN  \/ ~hasAlpha /\ Fails(pre)
                  \/ Fails(pre \o <<"Similarity">>)
                  \/ Proceeds(pre \o <<"Similarity">>, "blur") /\ UNCHANGED img
       ELSE Proceeds(<<>>, "blur") /\ UNCHANGED img
    /\ UNCHANGED <<r, v, fetches, countingReader, resizeCall, readErr>>

\* lines 189-194
Blur ==
    /\ pc = "blur"
    /\ IF FloatGreater(v.blurAmount, 0)
       THEN \/ Fails(<<"GaussianBlur">>)
            \/ Proceeds(<<"GaussianBlur">>, "resize") /\ UNCHANGED img
       ELSE Proceeds(<<>>, "resize") /\ UNCHANGED img
    /\ UNCHANGED <<r, v, fetches, countingReader, resizeCall, readErr>>

\* lines 196-202 and resizeImage: the image is measured, resized when
\* resizeImage decides so, and a failed resize leaves the variable img nil.
\* dimensions is the set of sizes the decoded image may have.
ResizeWith(dimensions) ==
    /\ pc = "resize"
    /\ IF v.height > 0 \/ v.width > 0
       THEN \E dims \in dimensions :
              LET plan == resizeImage(dims[1], dims[2], v.width, v.height, v.upscale)
              IN  /\ resizeCall' = [call |-> plan.call, hScale |-> plan.hScale,
                                    vScale |-> plan.vScale,
                                    Width |-> dims[1], PageHeight |-> dims[2]]
                  /\ IF plan.call = "none"
                     THEN /\ Proceeds(<<>>, "sharpen")
                          /\ img' = [img EXCEPT !.Width = dims[1], !.PageHeight = dims[2]]
                          /\ UNCHANGED v
                     ELSE \/ /\ Fails(<<plan.call>>)
                             /\ v' = [v EXCEPT !.img = "nil"]
                          \/ /\ Proceeds(<<plan.call>>, "sharpen")
                             /\ img' = [img EXCEPT
                                          !.Width = Scaled(dims[1], plan.hScale),
                                          !.PageHeight = Scaled(dims[2], plan.vScale)]
                             /\ UNCHANGED v
       ELSE Proceeds(<<>>, "sharpen") /\ UNCHANGED <<img, v, resizeCall>>
    /\ UNCHANGED <<r, fetches, countingReader, readErr>>

Resize == ResizeWith(ImgDims)

\* lines 204-209
Sharpen ==
    /\ pc = "sharpen"
    /\ IF FloatGreater(v.sharpenAmount, 0)
       THEN \/ Fails(<<"Sharpen">>)
            \/ Proceeds(<<"Sharpen">>, "strip") /\ UNCHANGED img
       ELSE Proceeds(<<>>, "strip") /\ UNCHANGED img
    /\ UNCHANGED <<r, v, fetches, countingReader, resizeCall, readErr>>

\* lines 211-217
Strip ==
    /\ pc = "strip"
    /\ IF v.stripMetadata
       THEN \/ Fails(<<"RemoveMetadata">>)
            \/ Proceeds(<<"RemoveMetadata">>, "export") /\ UNCHANGED img
       ELSE Proceeds(<<>>, "export") /\ UNCHANGED img
    /\ UNCHANGED <<r, v, fetches, countingReader, resizeCall, readErr>>

\* Export with a failed encode tried once more
ExportRetried ==
    /\ pc = "export"
    /\ v' = [v EXCEPT !.targetFormat = IF v.convertToWebP THEN "webp" ELSE v.targetFormat]
    /\ LET e == ExportImage(img.Format, v.quality, <<v'.targetFormat>>)
       IN  \/ /\ ops' = Append(ops, e.encoder)
              /\ Return(Write(w, Segment("encoded", 0, 0, e.format, e.quality)))
           \/ /\ ops' = ops \o <<e.encoder, e.encoder>>
              /\ \/ Return(HttpError(w, "vips error", StatusInternalServerError))
                 \/ Return(Write(w, Segment("encoded", 0, 0, e.format, e.quality)))
    /\ UNCHANGED <<r, fetches, countingReader, resizeCall, readErr>>

\* lines 219-228: the encoded bytes are a segment of the body that names
\* their format and quality.
Export ==
    /\ pc = "export"
    /\ v' = [v EXCEPT !.targetFormat = IF v.convertToWebP THEN "webp" ELSE v.targetFormat]
    /\ LET e == ExportImage(img.Format, v.quality, <<v'.targetFormat>>)
       IN  /\ ops' = Append(ops, e.encoder)
           /\ \/ Return(HttpError(w, "vips error", StatusInternalServerError))
              \/ Return(Write(w, Segment("encoded", 0, 0, e.format, e.quality)))
    /\ UNCHANGED <<r, fetches, countingReader, resizeCall, readErr>>

Next ==
    \/ NormalizeURL
    \/ ParseDimensions
    \/ ParseRotation
    \/ ParseQuality
    \/ ParseImageFormat
    \/ ParseSharpen
    \/ ParseBlur
    \/ Flags
    \/ Fetch
    \/ CheckStatus
    \/ CheckContentType
    \/ FastPath
    \/ Copy
    \/ ReadAll
    \/ Load
    \/ Rotate
    \/ Blur
    \/ Resize
    \/ Sharpen
    \/ Strip
    \/ Export

Spec == Init /\ [][Next]_vars

TypeOK == pc \in {"normalizeURL", "parseDimensions", "parseRotation", "parseQuality",
                  "parseImageFormat", "parseSharpen", "parseBlur", "flags", "fetch",
                  "checkStatus", "checkContentType", "fastPath", "copy", "readAll",
                  "load", "rotate", "blur", "resize", "sharpen", "strip", "export",
                  "done", "read"}

(***************************************************************************)
(* resizeImage on its own: the handler stands before line 196 with any     *)
(* target size up to MaxDim, and the image has any size up to MaxDim.      *)
(***************************************************************************)
Lit(n) == IF n = 0 THEN <<>> ELSE <<Digits[n + 1]>>
SmallDims == (1..MaxDim) \X (1..MaxDim)

InitResize ==
    /\ pc = "resize"
    /\ \E width \in 0..MaxDim, height \in 0..MaxDim, upscale \in BOOLEAN :
          /\ r = [url |-> <<"h", "/", "x">>,
                  query |-> [EmptyQuery EXCEPT !["w"] = Lit(width), !["h"] = Lit(height),
                                               !["up"] = IF upscale THEN TrueLit ELSE <<>>],
                  accept |-> <<"*/*">>, otherKey |-> TRUE]
          /\ v = [targetUrl |-> HttpsPrefix \o <<"h", "/", "x">>,
                  height |-> height, width |-> width, rotation |-> 0,
                  quality |-> 0, targetFormat |-> "unknown",
                  sharpenAmount |-> FloatZero, blurAmount |-> FloatZero,
                  upscale |-> upscale, stripMetadata |-> FALSE, convertToWebP |-> FALSE,
                  hasQueryParams |-> TRUE, img |-> "ref"]
    /\ fetches = 1
    /\ resp = [StatusCode |-> StatusOK, ContentType |-> "image/jpeg",
               bodyLen |-> maxImageSize, closed |-> FALSE]
    /\ countingReader = [bytesRead |-> maxImageSize, maxImageSize |-> maxImageSize]
    /\ w = [contentType |-> "", status |-> 0, body |-> <<>>, errors |-> 0]
    /\ img = [NoImage EXCEPT !.open = TRUE, !.opens = 1, !.Format = "jpeg"]
    /\ defers = <<"resp.Body.Close", "img.Close">>
    /\ ops = <<>>
    /\ resizeCall = NotResized
    /\ readErr = ""

ResizeSmall == ResizeWith(SmallDims)

NextResize == ResizeSmall

SpecResize == InitResize /\ [][NextResize]_vars

(***************************************************************************)
(* The parameter parsers on their own: the handler stands before line 55   *)
(* and the request may give a value to both keys of a parameter.           *)
(***************************************************************************)
\* The values of the two keys of one parameter, in the order the parser
\* reads them: each key is absent, carries its own valid literal, or
\* carries a literal the parser rejects.
BothValues(first, second, bad) == {<<>>, first, bad} \X {<<>>, second, bad}

InitParse ==
    /\ pc = "parseDimensions"
    /\ r = [url |-> <<"h", "/", "x">>, query |-> EmptyQuery,
            accept |-> <<>>, otherKey |-> FALSE]
    /\ v = [targetUrl |-> HttpsPrefix \o <<"h", "/", "x">>,
            height |-> 0, width |-> 0, rotation |-> 0,
            quality |-> 0, targetFormat |-> "unknown",
            sharpenAmount |-> FloatZero, blurAmount |-> FloatZero,
            upscale |-> FALSE, stripMetadata |-> FALSE, convertToWebP |-> FALSE,
            hasQueryParams |-> FALSE, img |-> "nil"]
    /\ fetches = 0
    /\ resp = [StatusCode |-> 0, ContentType |-> "", bodyLen |-> 0, closed |-> FALSE]
    /\ countingReader = [bytesRead |-> 0, maxImageSize |-> 0]
    /\ w = [contentType |-> "", status |-> 0, body |-> <<>>, errors |-> 0]
    /\ img = NoImage
    /\ defers = <<>>
    /\ ops = <<>>
    /\ resizeCall = NotResized
    /\ readErr = ""

ParseDimensionsBoth ==
    ParseDimensionsWith(
        BothValues(<<"2", "0", "0">>, <<"3", "0", "0">>, <<"2", "0", "0", "0", "1">>),
        BothValues(<<"4", "0", "0">>, <<"5", "0", "0">>, Unparsable))

ParseRotationBoth ==
    ParseRotationWith(BothValues(<<"9", "0">>, <<"1", "8", "0">>, <<"3", "6", "1">>))

ParseQualityBoth ==
    ParseQualityWith(BothValues(<<"8", "0">>, <<"5", "0">>, <<"0">>))

ParseImageFormatBoth ==
    ParseImageFormatWith(BothValues(<<"P", "N", "G">>, <<"w", "e", "b", "p">>, <<"b", "m", "p">>))

ParseSharpenBoth ==
    ParseSharpenWith(BothValues(<<"0", ".", "5">>, <<"1">>, <<"1", ".", "5">>))

ParseBlurBoth ==
    ParseBlurWith(BothValues(<<"0", ".", "5">>, <<"1">>, Unparsable))

NextParse ==
    \/ ParseDimensionsBoth
    \/ ParseRotationBoth
    \/ ParseQualityBoth
    \/ ParseImageFormatBoth
    \/ ParseSharpenBoth
    \/ ParseBlurBoth

SpecParse == InitParse /\ [][NextParse]_vars

(***************************************************************************)
(* countingReader on its own: after line 125 a caller reads the body in    *)
(* chunks of any size up to a copy buffer and goes on reading after an     *)
(* error.                                                                  *)
(***************************************************************************)
EOF == "EOF"

InitReader ==
    /\ pc = "read"
    /\ r = [url |-> <<"h", "/", "x">>, query |-> EmptyQuery,
            accept |-> <<"*/*">>, otherKey |-> FALSE]
    /\ v = [targetUrl |-> HttpsPrefix \o <<"h", "/", "x">>,
            height |-> 0, width |-> 0, rotation |-> 0,
            quality |-> 0, targetFormat |-> "unknown",
            sharpenAmount |-> FloatZero, blurAmount |-> FloatZero,
            upscale |-> FALSE, stripMetadata |-> FALSE, convertToWebP |-> FALSE,
            hasQueryParams |-> FALSE, img |-> "nil"]
    /\ fetches = 1
    /\ resp = [StatusCode |-> StatusOK, ContentType |-> "image/jpeg",
               bodyLen |-> maxImageSize + MaxOver * CopyBufSize, closed |-> FALSE]
    /\ countingReader = [bytesRead |-> 0, maxImageSize |-> maxImageSize]
    /\ w = [contentType |-> "", status |-> 0, body |-> <<>>, errors |-> 0]
    /\ img = NoImage
    /\ defers = <<"resp.Body.Close">>
    /\ ops = <<>>
    /\ resizeCall = NotResized
    /\ readErr = ""

\* What the underlying reader may return: no byte, one byte, a full copy
\* buffer or a shorter last chunk, with io.EOF at the end of the body.
Chunks ==
    {n \in {0, 1, CopyBufSize, Remaining} :
        /\ n <= Remaining
        /\ n <= CopyBufSize
        /\ n = 1 => countingReader.bytesRead % CopyBufSize < MaxOddBytes}

ReadChunk ==
    /\ pc = "read"
    /\ \E n \in Chunks, err \in {"", EOF} :
          LET rd == Read(countingReader, n, err)
          IN  /\ err = EOF => n = Remaining
              /\ countingReader' = rd.cr
              /\ readErr' = rd.err
    /\ UNCHANGED <<pc, r, v, fetches, resp, w, img, defers, ops, resizeCall>>

NextReader == ReadChunk

SpecReader == InitReader /\ [][NextReader]_vars

(***************************************************************************)
(* Properties                                                              *)
(***************************************************************************)
Done == pc = "done"
Auto == <<"a", "u", "t", "o">>
Force == <<"f", "o", "r", "c", "e">>
Http == <<"h", "t", "t", "p">>
Https == <<"h", "t", "t", "p", "s">>

\* The value a request gives to a parameter with two keys
Given(q, k1, k2) == IF q[k1] # <<>> THEN q[k1] ELSE q[k2]

IntInRange(value, min, max) ==
    \/ value = <<>>
    \/ /\ ~Atoi(value).err
       /\ Atoi(value).num >= min
       /\ Atoi(value).num <= max

\* A float literal denotes a number between 0 and 1
FloatInUnit(value) ==
    \/ value = <<>>
    \/ LET p == ParseFloat(value)
       IN  /\ ~p.err
           /\ p.num.kind = "num"
           /\ 0 <= p.num.num
           /\ p.num.num <= p.num.den

FormatNames ==
    {<<"j", "p", "e", "g">>, <<"j", "p", "g">>, <<"p", "n", "g">>, <<"w", "e", "b", "p">>,
     <<"h", "e", "i", "f">>, <<"h", "e", "i", "c">>, <<"t", "i", "f", "f">>,
     <<"t", "i", "f">>, <<"a", "v", "i", "f">>, <<"j", "p", "2", "k">>,
     <<"j", "2", "k">>, <<"g", "i", "f">>}

RequestValid(q) ==
    /\ IntInRange(Given(q, "h", "height"), 0, 20000)
    /\ IntInRange(Given(q, "w", "width"), 0, 20000)
    /\ IntInRange(Given(q, "rotate", "r"), 0, 360)
    /\ IntInRange(Given(q, "q", "quality"), 1, 100)
    /\ FloatInUnit(Given(q, "sharpen", "s"))
    /\ FloatInUnit(Given(q, "blur", "b"))
    /\ (Given(q, "format", "f") = <<>> \/ ToLower(Given(q, "format", "f")) \in FormatNames)

\* C1: a request with an out-of-range or unparsable height, width,
\* rotation, quality, sharpen or blur, or an unknown format name, is
\* answered 400 and no fetch is issued for it.
C1_ValidationPrecedesFetch ==
    ~RequestValid(r.query) =>
        /\ fetches = 0
        /\ (Done => w.status = StatusBadRequest)

Encoders == {"ExportJpeg", "ExportPng", "ExportWebp", "ExportHeif", "ExportTiff",
             "ExportAvif", "ExportJp2k", "ExportGIF", "ExportNative"}
\* The export stage was reached: the last library call is an encoder.
Exported == Len(ops) > 0 /\ ops[Len(ops)] \in Encoders
Encoder == ops[Len(ops)]
AcceptsWebp == \E i \in 1..Len(r.accept) : r.accept[i] = "image/webp"

\* C2: at the export stage, webp=force encodes WebP whatever the Accept
\* header, webp=auto negotiates WebP exactly when the Accept header contains
\* image/webp, and any other webp value negotiates nothing.
C2_WebpNegotiation ==
    Done /\ Exported =>
        /\ r.query["webp"] = Force => Encoder = "ExportWebp"
        /\ r.query["webp"] = Auto =>
              /\ v.convertToWebP <=> AcceptsWebp
              /\ AcceptsWebp => Encoder = "ExportWebp"
        /\ r.query["webp"] \notin {Force, Auto} => ~v.convertToWebP

\* The format of the bytes an encoder produces
EncoderFormat(encoder) ==
    CASE encoder = "ExportJpeg" -> "jpeg"
      [] encoder = "ExportPng" -> "png"
      [] encoder = "ExportWebp" -> "webp"
      [] encoder = "ExportHeif" -> "heif"
      [] encoder = "ExportTiff" -> "tiff"
      [] encoder = "ExportAvif" -> "avif"
      [] encoder = "ExportJp2k" -> "jp2k"
      [] encoder = "ExportGIF" -> "gif"
      [] OTHER -> img.Format

\* C3: the encoder's format is WebP after a successful negotiation, else
\* the format requested with f/format, else the source's native format,
\* for every source content type.
C3_FormatPrecedence ==
    Done /\ Exported =>
        LET explicit == parseImageFormat(r.query).format
        IN  EncoderFormat(Encoder) =
                IF v.convertToWebP THEN "webp"
                ELSE IF explicit # "unknown" THEN explicit
                ELSE img.Format

OnlyErrors == \A i \in 1..Len(w.body) : w.body[i].kind = "error"

\* C4: a request whose upstream body is larger than the ceiling ends in an
\* error, and no byte of the image is written to the response.
C4_NoPartialImage ==
    Done /\ resp.bodyLen > maxImageSize =>
        /\ w.errors > 0
        /\ OnlyErrors

\* The gates are passed and the pass-through decision of line 132 is taken.
Decided == countingReader.maxImageSize # 0 /\ pc # "fastPath"
Svg == resp.ContentType = "image/svg+xml"

\* The handler passes the body through: it neither reads the body for a
\* decode nor calls the image library, what it writes of the image is the
\* upstream body from its first byte on under the upstream Content-Type,
\* and a body within the ceiling arrives whole.
PassedThrough ==
    /\ pc \in {"copy", "done"}
    /\ img.opens = 0
    /\ ops = <<>>
    /\ Len(w.body) > 0 => w.body[1].kind = "upstream" /\ w.body[1].lo = 0
    /\ \A i \in 2..Len(w.body) : w.body[i].kind = "error"
    /\ w.errors = 0 => w.contentType = resp.ContentType
    /\ (Done /\ resp.bodyLen <= maxImageSize) =>
          /\ w.body = <<Segment("upstream", 0, resp.bodyLen, "", 0)>>
          /\ w.contentType = resp.ContentType

\* C5 as stated: a request without any recognised transform key, and any
\* request for an SVG, is passed through.
C5_NoTransformKeysPassThrough ==
    Decided /\ (~AnyKey(r.query) \/ Svg) => PassedThrough

\* C5: a request with an empty query string, and any request for an SVG,
\* is passed through.
C5_EmptyQueryPassThrough ==
    Decided /\ ((~AnyKey(r.query) /\ ~r.otherKey) \/ Svg) => PassedThrough

C5_Witness ==
    /\ Done
    /\ Svg
    /\ AnyKey(r.query)
    /\ resp.bodyLen <= maxImageSize
    /\ w.body = <<Segment("upstream", 0, resp.bodyLen, "", 0)>>

\* The factor target/current of an axis is at most 1, or the axis is free
FitsAxis(target, current) == target = 0 \/ target <= current
\* The float s is the factor target/current
IsFactor(s, target, current) == s.kind = "num" /\ s.num * current = target * s.den

ResizeApplies ==
    /\ v.width # 0 \/ v.height # 0
    /\ \/ v.upscale
       \/ /\ FitsAxis(v.width, resizeCall.Width)
          /\ FitsAxis(v.height, resizeCall.PageHeight)

\* C6: resizeImage resizes exactly when a target is given and upscaling is
\* allowed or no constrained axis grows: by one factor for one constrained
\* axis, by the two factors for two; otherwise it makes no resize call and
\* the image keeps its size.
C6_ResizePolicy ==
    pc # "resize" =>
        /\ ResizeApplies <=> resizeCall.call # "none"
        /\ resizeCall.call # "none" <=> ops = <<resizeCall.call>>
        /\ ResizeApplies /\ v.width = 0 =>
              /\ resizeCall.call = "Resize"
              /\ IsFactor(resizeCall.hScale, v.height, resizeCall.PageHeight)
              /\ IsFactor(resizeCall.vScale, v.height, resizeCall.PageHeight)
        /\ ResizeApplies /\ v.height = 0 =>
              /\ resizeCall.call = "Resize"
              /\ IsFactor(resizeCall.hScale, v.width, resizeCall.Width)
              /\ IsFactor(resizeCall.vScale, v.width, resizeCall.Width)
        /\ ResizeApplies /\ v.width # 0 /\ v.height # 0 =>
              /\ resizeCall.call = "ResizeWithVScale"
              /\ IsFactor(resizeCall.hScale, v.width, resizeCall.Width)
              /\ IsFactor(resizeCall.vScale, v.height, resizeCall.PageHeight)
        /\ ~ResizeApplies =>
              /\ ops = <<>>
              /\ img.Width = resizeCall.Width
              /\ img.PageHeight = resizeCall.PageHeight

\* Both axes are constrained, one of them would grow, upscaling is off:
\* the image is measured and left alone.
C6_Witness ==
    /\ pc = "sharpen"
    /\ ~v.upscale
    /\ v.width # 0
    /\ v.height > resizeCall.PageHeight
    /\ resizeCall.PageHeight > 0
    /\ v.width < resizeCall.Width
    /\ resizeCall.call = "none"
    /\ img.Width = resizeCall.Width

LastError == w.body[Len(w.body)]

\* C7: every failure has its status: validation 400, a content type off the
\* allow-list 400, a decode or size-limit failure 400 with "Failed to decode
\* image" on either path, a failed fetch 500, a failed library call 500.
C7_StatusMapping ==
    Done /\ w.errors > 0 =>
        /\ fetches = 0 => LastError.code = StatusBadRequest
        /\ fetches = 1 /\ resp.StatusCode = 0 =>
              LastError.code = StatusInternalServerError
        /\ resp.StatusCode = StatusOK /\ ~isSupportedImageFormat(resp.ContentType) =>
              LastError.code = StatusBadRequest
        /\ countingReader.maxImageSize # 0 /\ img.opens = 0 =>
              /\ LastError.code = StatusBadRequest
              /\ LastError.text = "Failed to decode image"
        /\ img.opens = 1 => LastError.code = StatusInternalServerError

StatusRejected ==
    w.errors > 0 /\ LastError.text = "Received a status code from the server"

\* C8: every 2xx upstream status goes on to the content-type gate; every
\* other status is answered with that status and the body is left unread.
C8_SuccessIs2xx ==
    Done /\ resp.StatusCode # 0 =>
        IF resp.StatusCode \in 200..299
        THEN ~StatusRejected
        ELSE /\ StatusRejected
             /\ w.status = resp.StatusCode
             /\ countingReader.bytesRead = 0
             /\ img.opens = 0

\* C9: a URL without scheme is fetched with https:// in front, an http or
\* https URL is fetched as given, and a URL with any other scheme is
\* answered 400 without a fetch.
C9_SchemeGate ==
    LET scheme == ToLower(getScheme(r.url).scheme)
    IN  /\ scheme \notin {<<>>, Http, Https} =>
              /\ fetches = 0
              /\ (Done => w.status = StatusBadRequest)
        /\ scheme = <<>> /\ fetches > 0 => v.targetUrl = HttpsPrefix \o r.url
        /\ scheme \in {Http, Https} /\ fetches > 0 => v.targetUrl = r.url

Mime(format) ==
    CASE format = "jpeg" -> "image/jpeg"
      [] format = "png" -> "image/png"
      [] format = "webp" -> "image/webp"
      [] format = "heif" -> "image/heif"
      [] format = "tiff" -> "image/tiff"
      [] format = "avif" -> "image/avif"
      [] format = "jp2k" -> "image/jp2"
      [] format = "gif" -> "image/gif"
      [] OTHER -> "application/octet-stream"

\* C10: a successful transform response carries the Content-Type of the
\* format its bytes are encoded in.
C10_ContentTypeOfOutput ==
    Done /\ Len(w.body) > 0 /\ LastError.kind = "encoded" =>
        w.contentType = Mime(LastError.text)

\* The two keys of every parameter, in the order the parameter table lists them
ListedAliases == {<<"h", "height">>, <<"w", "width">>, <<"r", "rotate">>,
                  <<"q", "quality">>, <<"f", "format">>, <<"s", "sharpen">>,
                  <<"b", "blur">>}

BothPresent(q) == \E a \in ListedAliases : q[a[1]] # <<>> /\ q[a[2]] # <<>>

\* The query without the second-listed key of every parameter whose
\* first-listed key is present
ListedFirst(q) ==
    [k \in Keys |-> IF \E a \in ListedAliases : a[2] = k /\ q[a[1]] # <<>>
                    THEN <<>>
                    ELSE q[k]]

ParseErr(q) ==
    \/ parseDimensions(q).err
    \/ parseRotation(q).err
    \/ parseQuality(q).err
    \/ parseImageFormat(q).err
    \/ parseSharpen(q).err
    \/ parseBlur(q).err

\* C11: when a request gives values to both keys of a parameter, the
\* parsers accept or reject it, and produce the values, as they do for the
\* same request without the second-listed key (h, w, r, q, f, s, b are
\* listed first): the first-listed key's value is used and the other key is
\* ignored, even when its value is unparsable or out of range.
C11_FirstListedAliasWins ==
    BothPresent(r.query) =>
        LET q == ListedFirst(r.query)
        IN  IF Done
            THEN ParseErr(q)
            ELSE /\ ~ParseErr(q)
                 /\ v.height = parseDimensions(q).height
                 /\ v.width = parseDimensions(q).width
                 /\ v.rotation = parseRotation(q).num
                 /\ v.quality = parseQuality(q).num
                 /\ v.targetFormat = parseImageFormat(q).format
                 /\ v.sharpenAmount = parseSharpen(q).num
                 /\ v.blurAmount = parseBlur(q).num

\* The same for the parameters whose keys the code reads in the listed
\* order: h before height, w before width, q before quality.
ReadInListedOrder(q) ==
    \A a \in ListedAliases :
        q[a[1]] # <<>> /\ q[a[2]] # <<>> => a[1] \in {"h", "w", "q"}

C11_ListedOrderParameters ==
    ReadInListedOrder(r.query) => C11_FirstListedAliasWins

\* The place of every library call in the fixed order of the transform path
Rank(op) ==
    CASE op \in {"HasAlpha", "HasNoAlpha"} -> 1
      [] op = "BandJoinConst" -> 2
      [] op = "Similarity" -> 3
      [] op = "GaussianBlur" -> 4
      [] op \in {"Resize", "ResizeWithVScale"} -> 5
      [] op = "Sharpen" -> 6
      [] op = "RemoveMetadata" -> 7
      [] OTHER -> 8

Called(op) == \E i \in 1..Len(ops) : ops[i] = op

\* The stages of the transform path, the statement each starts at, and the
\* rank of its first library call
Stages == <<"rotate", "blur", "resize", "sharpen", "strip", "export">>
StageRank(s) ==
    CASE s = "rotate" -> 1
      [] s = "blur" -> 4
      [] s = "resize" -> 5
      [] s = "sharpen" -> 6
      [] s = "strip" -> 7
      [] OTHER -> 8
StageIndex(s) == CHOOSE i \in 1..Len(Stages) : Stages[i] = s

Decoded == img.opens > 0

\* The handler is past the stage s: it stands at a later stage, or it
\* returned from s or from a later stage.
Past(s) ==
    /\ Decoded
    /\ IF Done
       THEN ops # <<>> /\ Rank(ops[Len(ops)]) >= StageRank(s)
       ELSE StageIndex(pc) > StageIndex(s)

NotZero(f) == ~(f.kind = "num" /\ f.num = 0)

\* The parameter of the stage is not at its disabled value
Requested(s) ==
    CASE s = "rotate" -> v.rotation # 0
      [] s = "blur" -> NotZero(v.blurAmount)
      [] s = "resize" -> v.width # 0 \/ v.height # 0
      [] s = "sharpen" -> NotZero(v.sharpenAmount)
      [] s = "strip" -> r.query["strip"] = TrueLit
      [] OTHER -> TRUE

\* The stage made a library call, or, for resize, measured the image
Invoked(s) ==
    CASE s = "rotate" -> Called("HasAlpha") \/ Called("HasNoAlpha")
      [] s = "blur" -> Called("GaussianBlur")
      [] s = "resize" -> resizeCall # NotResized
      [] s = "sharpen" -> Called("Sharpen")
      [] s = "strip" -> Called("RemoveMetadata")
      [] OTHER -> Exported

LibraryFailed == Done /\ Decoded /\ w.errors > 0

FixedOrder ==
    /\ \A i, j \in 1..Len(ops) : i < j => Rank(ops[i]) < Rank(ops[j])
    /\ Called("BandJoinConst") <=> Called("HasNoAlpha")
    /\ Called("Similarity") => Invoked("rotate")
    /\ ops # <<>> => Decoded
    /\ w.errors > 0 => Done
    /\ LibraryFailed => \A i \in 1..Len(w.body) : w.body[i].kind # "encoded"
    /\ Done /\ Decoded /\ w.errors = 0 => Exported

\* C12: the library calls of the transform path are made in the order alpha
\* check, alpha band (iff the image has none), rotate, blur, resize,
\* sharpen, strip, encode, each at most once; a stage the handler is past
\* was invoked exactly when its parameter is not at its disabled value; and
\* after a failed call no further call and no encode is made.
C12_FixedOrder ==
    /\ FixedOrder
    /\ \A i \in 1..Len(Stages) :
          /\ Invoked(Stages[i]) => Requested(Stages[i])
          /\ Past(Stages[i]) => (Requested(Stages[i]) => Invoked(Stages[i]))

\* The same for requests whose sharpen and blur values are numbers
C12_FixedOrderOfNumbers ==
    v.sharpenAmount.kind = "num" /\ v.blurAmount.kind = "num" => C12_FixedOrder

Exceeded == countingReader.bytesRead > countingReader.maxImageSize

\* once a Read returned the size-exceeded error, the next Read returns it
ErrorPersists == readErr = SizeExceeded => readErr' = SizeExceeded

\* C13: in every reachable state bytesRead is at most maxImageSize, and
\* once a Read has returned the size-exceeded error every later Read
\* returns it too.
C13_CeilingNeverExceeded ==
    /\ [](~Exceeded)
    /\ [][ErrorPersists]_vars

\* C13 as amended: bytesRead is over the ceiling exactly when the last Read
\* returned the size-exceeded error (the Read that takes the count over the
\* ceiling returns the error with its bytes counted), and once a Read has
\* returned the size-exceeded error every later Read returns it too.
C13_ErrorOnceExceeded ==
    /\ [](Exceeded <=> readErr = SizeExceeded)
    /\ [][ErrorPersists]_vars

\* Two Reads have returned the size-exceeded error: the count is over the
\* ceiling by more than one Read can add.
C13_Witness ==
    /\ pc = "read"
    /\ readErr = SizeExceeded
    /\ countingReader.bytesRead > countingReader.maxImageSize + CopyBufSize

\* The decode succeeded: the handler stands at a transform stage, or it
\* returned after the export or after a failed library call.
DecodeSucceeded ==
    \/ \E i \in 1..Len(Stages) : pc = Stages[i]
    \/ Done /\ Exported
    \/ Done /\ w.errors > 0 /\ LastError.text = "vips error"

\* C14: a successful decode obtains one image handle, which stays open
\* through the transform stages and is released exactly once when ImageGet
\* returns, on success and after a failed alpha-add, rotate, blur, resize
\* (which leaves the variable img nil), sharpen, strip or encode; without a
\* successful decode there is no handle.
C14_HandleReleasedOnce ==
    /\ img.opens = (IF DecodeSucceeded THEN 1 ELSE 0)
    /\ img.closes <= img.opens
    /\ img.open <=> (img.opens = 1 /\ ~Done)
    /\ Done => img.closes = img.opens

\* ImageGet returned after a failed resize: the variable img is nil and
\* the handle was released
C14_Witness ==
    /\ Done
    /\ v.img = "nil"
    /\ resizeCall.call # "none"
    /\ img.opens = 1
    /\ img.closes = 1

EncodeCalls == Cardinality({i \in 1..Len(ops) : ops[i] \in Encoders})
EncodedWrites == Cardinality({i \in 1..Len(w.body) : w.body[i].kind = "encoded"})
ErrorWrites == Cardinality({i \in 1..Len(w.body) : w.body[i].kind = "error"})

\* C15: at most one fetch is issued and at most one encode call is made; a
\* request that reaches the export makes exactly one encode call, and when
\* the encode succeeds the response body is the encoded result, written
\* once, and no error; a request that fails has exactly one http.Error
\* call, hence one status and message, and no encoded image in its response.
C15_NoRetry ==
    /\ fetches <= 1
    /\ EncodeCalls <= 1
    /\ EncodedWrites <= EncodeCalls
    /\ w.errors = ErrorWrites
    /\ Done /\ Decoded /\ w.errors = 0 =>
          /\ EncodeCalls = 1
          /\ EncodedWrites = 1
          /\ Len(w.body) = 1
    /\ Done /\ w.errors > 0 =>
          /\ w.errors = 1
          /\ EncodedWrites = 0
          /\ LastError.kind = "error"

\* A request was fetched, decoded and encoded, and its response is the
\* encoded image
C15_Witness ==
    /\ Done
    /\ fetches = 1
    /\ Exported
    /\ w.errors = 0
    /\ EncodedWrites = 1

====
